---- MODULE Spec2Model ----
(***************************************************************************)
(* The location-tracking session of the two RealTimeMap screens: the map   *)
(* screen (location + address on a map) and the WebSocket screen (location *)
(* history + START/ONGOING/FINISH events over a socket).  One screen is    *)
(* mounted per behaviour (variable screen).  Every await of the handlers   *)
(* is a suspension point, so every handler is split at its awaits and the  *)
(* pieces of different handlers and callbacks interleave.                  *)
(***************************************************************************)
EXTENDS Integers, Naturals, Sequences, FiniteSets, TLC

\* ---------------------------------------------------------------- bounds
\* Invocations of startTracking, invocations of stopTracking, callbacks the
\* position stream delivers, and all of them together.
MaxStarts == 2
MaxStops == 2
MaxCallbacks == 2
MaxOps == 4

\* ---------------------------------------------------------------- values
\* JavaScript null (watchId.current, location): the empty tuple; a held
\* value v is the one-element tuple <<v>>.
Null == <<>>

\* JavaScript undefined where a string is expected (reverseData).
Undefined == "undefined"

\* The places the device moves between, as position.coords reports them.
Places == <<[latitude |-> 0, longitude |-> 0], [latitude |-> 1, longitude |-> 2]>>

\* The place the device moves to next.  A distanceFilter subscription
\* reports a position only after the device has moved, so two successive
\* callbacks never report the same place.
Moved(p) == (p % Len(Places)) + 1

\* What the reverse-geocode service can answer to one GET /reverse:
\* a body with an address, a body without one, or a failure (network
\* error, timeout, non-2xx status).
Responses == {"address", "noaddress", "error"}

\* JSON.stringify(response.data.address) for the address of a position.
AddressOf(latitude, longitude) ==
    "addr(" \o ToString(latitude) \o "," \o ToString(longitude) \o ")"

\* fetchAddress: the serialized address, undefined when the body carries no
\* address (JSON.stringify(undefined)), and a rethrown error on failure.
fetchAddress(latitude, longitude, response) ==
    IF response = "error"
    THEN [threw |-> TRUE, value |-> Undefined]
    ELSE [threw |-> FALSE,
          value |-> IF response = "address"
                    THEN AddressOf(latitude, longitude)
                    ELSE Undefined]

\* getDeviceData: the device descriptor attached to every event.
getDeviceData == [deviceId |-> "id", deviceName |-> "name", os |-> "os"]

\* JavaScript truthiness of a string or undefined.
Truthy(s) == s # "" /\ s # Undefined

\* x || null on a number: 0 is falsy.
NumOrNull(n) == IF n = 0 THEN Null ELSE <<n>>

\* The payload sendLocationEvent builds.
Payload(eventType, deviceData, location) ==
    [event |-> "locationUpdate",
     data |-> [deviceId |-> deviceData.deviceId,
               deviceName |-> deviceData.deviceName,
               os |-> deviceData.os,
               eventType |-> eventType,
               latitude |-> NumOrNull(location.latitude),
               longitude |-> NumOrNull(location.longitude),
               reverseData |-> IF Truthy(location.reverseData)
                               THEN location.reverseData
                               ELSE "Unknown"]]

EventTypes == {"START", "ONGOING", "FINISH"}

\* ---------------------------------------------------------------- state
VARIABLES
    screen,     \* "map" or "ws": which RealTimeMap is mounted
    place,      \* position source: where the device is (index in Places)
    mounted,    \* the component has not been unmounted
    tracking,   \* useState tracking
    watchId,    \* useRef watchId: Null or <<handle>>
    watches,    \* the platform's active position subscriptions (handles)
    location,   \* map screen: useState location, Null or <<coords>>
    address,    \* map screen: useState address
    locations,  \* ws screen: useState locations, a sequence of records
    readyState, \* ws screen: ws.current.readyState
    frames,     \* ws screen: how many frames ws.current.send transmitted
    starts,     \* startTracking invocations: where each one is suspended
                \* and what its permission request answered
    first,      \* per startTracking invocation: its getCurrentPosition
                \* ("sent": START sent with the position read,
                \* "substituted": the read failed and START was sent with
                \* (0,0), "rejected": the success callback threw)
    callbacks,  \* watchPosition success callbacks in arrival order: the
                \* subscription, the coordinates, tracking on arrival, and
                \* where the callback is
    stops,      \* stopTracking invocations: where each one is suspended
    sent,       \* history: the latest call of sendLocationEvent (Null or
                \* <<call>>): its caller, the location it was given, its
                \* payload, the socket state
    emitted,    \* history: calls of sendLocationEvent per event type
    session     \* history: the startTracking invocation that last set
                \* tracking to true (0 before the first)

vars == <<screen, place, mounted, tracking, watchId, watches, location,
          address, locations, readyState, frames, starts, first, callbacks,
          stops, sent, emitted, session>>

StartIds == 1..MaxStarts
StopIds == 1..MaxStops

NoStart == [pc |-> "none", permission |-> "pending"]
NoStop == [pc |-> "none", last |-> [latitude |-> 0, longitude |-> 0,
                                   reverseData |-> "Unknown"],
           index |-> 0, sess |-> 0]

\* Handler invocations and stream callbacks so far.
Ops ==
    Cardinality({k \in StartIds : starts[k].pc # "none"})
    + Cardinality({j \in StopIds : stops[j].pc # "none"})
    + Len(callbacks)

Init ==
    /\ screen \in {"map", "ws"}
    /\ place \in 1..Len(Places)
    /\ mounted = TRUE
    /\ tracking = FALSE
    /\ watchId = Null
    /\ watches = {}
    /\ location = Null
    /\ address = ""
    /\ locations = <<>>
    /\ readyState = IF screen = "ws" THEN "CONNECTING" ELSE "NONE"
    /\ frames = 0
    /\ starts = [k \in StartIds |-> NoStart]
    /\ first = [k \in StartIds |-> "none"]
    /\ callbacks = <<>>
    /\ stops = [j \in StopIds |-> NoStop]
    /\ sent = Null
    /\ emitted = [t \in EventTypes |-> 0]
    /\ session = 0

\* A state setter called on an unmounted component changes nothing.
setState(old, new) == IF mounted THEN new ELSE old

\* sendLocationEvent without the readyState check.
sendLocationEvent_unguarded(eventType, deviceData, loc, tag) ==
    /\ frames' = frames + 1
    /\ sent' = <<[payload |-> Payload(eventType, deviceData, loc),
                  location |-> loc,
                  open |-> readyState = "OPEN",
                  sess |-> tag.sess, cb |-> tag.cb, stop |-> tag.stop]>>
    /\ emitted' = [emitted EXCEPT ![eventType] = @ + 1]

\* ------------------------------------------------------ sendLocationEvent
\* The frame is sent only when the socket is OPEN; otherwise the event is
\* logged and dropped.  tag identifies the caller in the history.
sendLocationEvent(eventType, deviceData, loc, tag) ==
    /\ frames' = IF readyState = "OPEN" THEN frames + 1 ELSE frames
    /\ sent' = <<[payload |-> Payload(eventType, deviceData, loc),
                  location |-> loc,
                  open |-> readyState = "OPEN",
                  sess |-> tag.sess, cb |-> tag.cb, stop |-> tag.stop]>>
    /\ emitted' = [emitted EXCEPT ![eventType] = @ + 1]

Tag(sess, cb, stop) == [sess |-> sess, cb |-> cb, stop |-> stop]

\* ------------------------------------------------------------ startTracking
\* The button invokes startTracking (either screen), which first awaits
\* requestLocationPermission.
startTracking ==
    /\ mounted
    /\ Ops < MaxOps
    /\ \E k \in StartIds :
        /\ starts[k].pc = "none"
        /\ \A m \in StartIds : m < k => starts[m].pc # "none"
        /\ starts' = [starts EXCEPT ![k].pc = "permission"]
    /\ UNCHANGED <<screen, place, mounted, tracking, watchId, watches,
                   location, address, locations, readyState, frames, first,
                   callbacks, stops, sent, emitted, session>>

Answer(hasPermission) == IF hasPermission THEN "granted" ELSE "denied"

\* Map screen: the permission request resolves.  Denied: alert and return.
\* Granted: setTracking(true) and watchPosition, with no await in between.
map_startTracking_permission(k, hasPermission) ==
    /\ screen = "map"
    /\ starts[k].pc = "permission"
    /\ starts' = [starts EXCEPT ![k] = [pc |-> "done",
                                        permission |-> Answer(hasPermission)]]
    /\ IF ~hasPermission
       THEN UNCHANGED <<tracking, watchId, watches, session>>
       ELSE /\ tracking' = setState(tracking, TRUE)
            /\ watches' = watches \cup {k}
            /\ watchId' = <<k>>
            /\ session' = k
    /\ UNCHANGED <<screen, place, mounted, location, address, locations,
                   readyState, frames, first, callbacks, stops, sent,
                   emitted>>

\* ws_startTracking_permission without the return after the alert.
ws_startTracking_permission_noreturn(k, hasPermission) ==
    /\ screen = "ws"
    /\ starts[k].pc = "permission"
    /\ starts' = [starts EXCEPT ![k] = [pc |-> "deviceData",
                                        permission |-> Answer(hasPermission)]]
    /\ tracking' = setState(tracking, TRUE)
    /\ session' = k
    /\ UNCHANGED <<screen, place, mounted, watchId, watches, location,
                   address, locations, readyState, frames, first, callbacks,
                   stops, sent, emitted>>

\* WebSocket screen: the permission request resolves.  Denied: alert and
\* return.  Granted: setTracking(true), then await getDeviceData().
ws_startTracking_permission(k, hasPermission) ==
    /\ screen = "ws"
    /\ starts[k].pc = "permission"
    /\ IF ~hasPermission
       THEN /\ starts' = [starts EXCEPT ![k] = [pc |-> "done",
                                                permission |-> "denied"]]
            /\ UNCHANGED <<tracking, session>>
       ELSE /\ starts' = [starts EXCEPT ![k] = [pc |-> "deviceData",
                                                permission |-> "granted"]]
            /\ tracking' = setState(tracking, TRUE)
            /\ session' = k
    /\ UNCHANGED <<screen, place, mounted, watchId, watches, location,
                   address, locations, readyState, frames, first, callbacks,
                   stops, sent, emitted>>

\* WebSocket screen: getDeviceData resolved.  getCurrentPosition is
\* requested (not awaited) and watchPosition registers the subscription.
ws_startTracking_deviceData(k) ==
    /\ screen = "ws"
    /\ starts[k].pc = "deviceData"
    /\ starts' = [starts EXCEPT ![k].pc = "done"]
    /\ first' = [first EXCEPT ![k] = "pending"]
    /\ watches' = watches \cup {k}
    /\ watchId' = <<k>>
    /\ UNCHANGED <<screen, place, mounted, tracking, location, address,
                   locations, readyState, frames, callbacks, stops, sent,
                   emitted, session>>

\* getCurrentPosition success callback, a whole run of it: it reads the
\* coordinates, awaits fetchAddress and sends START with what fetchAddress
\* returned; when fetchAddress throws, the async callback rejects and
\* nothing is sent.  Before its await the callback reads and writes no
\* state, so the run is one step, taken when fetchAddress settles.
getCurrentPosition_success(k, response) ==
    /\ first[k] = "pending"
    /\ LET coords == Places[place]
           r == fetchAddress(coords.latitude, coords.longitude, response)
       IN IF r.threw
          THEN /\ first' = [first EXCEPT ![k] = "rejected"]
               /\ UNCHANGED <<frames, sent, emitted>>
          ELSE /\ first' = [first EXCEPT ![k] = "sent"]
               /\ sendLocationEvent("START", getDeviceData,
                                    [latitude |-> coords.latitude,
                                     longitude |-> coords.longitude,
                                     reverseData |-> r.value],
                                    Tag(k, 0, 0))
    /\ UNCHANGED <<screen, place, mounted, tracking, watchId, watches,
                   location, address, locations, readyState, starts,
                   callbacks, stops, session>>

\* getCurrentPosition error callback without its sendLocationEvent: a
\* failed read that ends the start's one-shot silently.
getCurrentPosition_error_silent(k) ==
    /\ first[k] = "pending"
    /\ first' = [first EXCEPT ![k] = "substituted"]
    /\ UNCHANGED <<screen, place, mounted, tracking, watchId, watches,
                   location, address, locations, readyState, frames, sent,
                   emitted, starts, callbacks, stops, session>>

\* getCurrentPosition error callback: START with (0,0) and "Unknown".
getCurrentPosition_error(k) ==
    /\ first[k] = "pending"
    /\ first' = [first EXCEPT ![k] = "substituted"]
    /\ sendLocationEvent("START", getDeviceData,
                         [latitude |-> 0, longitude |-> 0,
                          reverseData |-> "Unknown"],
                         Tag(k, 0, 0))
    /\ UNCHANGED <<screen, place, mounted, tracking, watchId, watches,
                   location, address, locations, readyState, starts,
                   callbacks, stops, session>>

\* ------------------------------------------------- watchPosition callbacks
\* A callback the stream delivers for subscription w, as it arrives.
Arrival(w, coords, pc) ==
    [watch |-> w, coords |-> coords, tracking |-> tracking, pc |-> pc]

\* The platform delivers a position to the success callback of an active
\* subscription.  Map screen: setLocation, then await fetchAddress.
map_watchPosition_success(w) ==
    /\ screen = "map"
    /\ w \in watches
    /\ Len(callbacks) < MaxCallbacks
    /\ Ops < MaxOps
    /\ place' = Moved(place)
    /\ location' = setState(location, <<Places[place']>>)
    /\ callbacks' = Append(callbacks, Arrival(w, Places[place'], "fetch"))
    /\ UNCHANGED <<screen, mounted, tracking, watchId, watches, address,
                   locations, readyState, frames, starts, first, stops,
                   sent, emitted, session>>

\* Map screen: fetchAddress settled.  setAddress with the result; a thrown
\* error is caught and logged.
map_watchPosition_resolved(c, response) ==
    /\ screen = "map"
    /\ c \in DOMAIN callbacks
    /\ callbacks[c].pc = "fetch"
    /\ LET r == fetchAddress(callbacks[c].coords.latitude,
                             callbacks[c].coords.longitude, response)
       IN /\ address' = IF r.threw THEN address
                        ELSE setState(address, r.value)
          /\ callbacks' = [callbacks EXCEPT
                             ![c].pc = IF r.threw THEN "caught" ELSE "done"]
    /\ UNCHANGED <<screen, place, mounted, tracking, watchId, watches,
                   location, locations, readyState, frames, starts, first,
                   stops, sent, emitted, session>>

\* WebSocket screen: the success callback up to its await fetchAddress.
ws_watchPosition_success(w) ==
    /\ screen = "ws"
    /\ w \in watches
    /\ Len(callbacks) < MaxCallbacks
    /\ Ops < MaxOps
    /\ place' = Moved(place)
    /\ callbacks' = Append(callbacks, Arrival(w, Places[place'], "fetch"))
    /\ UNCHANGED <<screen, mounted, tracking, watchId, watches, location,
                   address, locations, readyState, frames, starts, first,
                   stops, sent, emitted, session>>

\* ws_watchPosition_resolved with the stop propagated into the callback:
\* a callback that resumes after stopTracking drops its record and event.
ws_watchPosition_resolved_cancelled(c, response) ==
    /\ screen = "ws"
    /\ c \in DOMAIN callbacks
    /\ callbacks[c].pc = "fetch"
    /\ LET coords == callbacks[c].coords
           r == fetchAddress(coords.latitude, coords.longitude, response)
           rec == [latitude |-> coords.latitude,
                   longitude |-> coords.longitude,
                   reverseData |-> r.value]
       IN IF r.threw
          THEN /\ callbacks' = [callbacks EXCEPT ![c].pc = "caught"]
               /\ UNCHANGED <<locations, frames, sent, emitted>>
          ELSE /\ callbacks' = [callbacks EXCEPT ![c].pc = "done"]
               /\ IF tracking
                  THEN /\ locations' = setState(locations,
                                                Append(locations,
                                                       rec @@ [cb |-> c]))
                       /\ sendLocationEvent("ONGOING", getDeviceData, rec,
                                            Tag(callbacks[c].watch, c, 0))
                  ELSE UNCHANGED <<locations, frames, sent, emitted>>
    /\ UNCHANGED <<screen, place, mounted, tracking, watchId, watches,
                   location, address, readyState, starts, first, stops,
                   session>>

\* WebSocket screen: fetchAddress settled.  The record is appended and
\* ONGOING is sent; a thrown error is caught and logged, and the callback
\* ends without a record and without an event.  cb, in the record, is
\* history: the callback that appended it.
ws_watchPosition_resolved(c, response) ==
    /\ screen = "ws"
    /\ c \in DOMAIN callbacks
    /\ callbacks[c].pc = "fetch"
    /\ LET coords == callbacks[c].coords
           r == fetchAddress(coords.latitude, coords.longitude, response)
           rec == [latitude |-> coords.latitude,
                   longitude |-> coords.longitude,
                   reverseData |-> r.value]
       IN IF r.threw
          THEN /\ callbacks' = [callbacks EXCEPT ![c].pc = "caught"]
               /\ UNCHANGED <<locations, frames, sent, emitted>>
          ELSE /\ callbacks' = [callbacks EXCEPT ![c].pc = "done"]
               /\ locations' = setState(locations,
                                        Append(locations, rec @@ [cb |-> c]))
               /\ sendLocationEvent("ONGOING", getDeviceData, rec,
                                    Tag(callbacks[c].watch, c, 0))
    /\ UNCHANGED <<screen, place, mounted, tracking, watchId, watches,
                   location, address, readyState, starts, first, stops,
                   session>>

\* watchPosition_invalid with the coords check after the state update: the
\* payload is stored before it is found invalid.
watchPosition_invalid_stored(w) ==
    /\ w \in watches
    /\ Len(callbacks) < MaxCallbacks
    /\ Ops < MaxOps
    /\ callbacks' = Append(callbacks, Arrival(w, Places[place], "invalid"))
    /\ location' = IF screen = "map"
                   THEN setState(location, <<Places[place]>>)
                   ELSE location
    /\ locations' = IF screen = "ws"
                    THEN setState(locations,
                                  Append(locations,
                                         [latitude |-> 0, longitude |-> 0,
                                          reverseData |-> Undefined,
                                          cb |-> Len(callbacks')]))
                    ELSE locations
    /\ UNCHANGED <<screen, place, mounted, tracking, watchId, watches,
                   address, readyState, frames, starts, first, stops, sent,
                   emitted, session>>

\* A payload without coords is logged and ignored (both screens); the
\* coords field of its arrival is never read.
watchPosition_invalid(w) ==
    /\ w \in watches
    /\ Len(callbacks) < MaxCallbacks
    /\ Ops < MaxOps
    /\ callbacks' = Append(callbacks, Arrival(w, Places[place], "invalid"))
    /\ UNCHANGED <<screen, place, mounted, tracking, watchId, watches,
                   location, address, locations, readyState, frames, starts,
                   first, stops, sent, emitted, session>>

\* ------------------------------------------------------------- stopTracking
\* Geolocation.clearWatch(watchId.current) on the platform's subscriptions.
clearWatch(id) == watches \ {id[1]}

\* Map screen: stopTracking has no await.
map_stopTracking ==
    /\ screen = "map"
    /\ mounted
    /\ Ops < MaxOps
    /\ \E j \in StopIds :
        /\ stops[j].pc = "none"
        /\ \A m \in StopIds : m < j => stops[m].pc # "none"
        /\ stops' = [stops EXCEPT ![j].pc = "done", ![j].sess = session]
    /\ IF watchId # Null
       THEN /\ watches' = clearWatch(watchId)
            /\ watchId' = Null
       ELSE UNCHANGED <<watches, watchId>>
    /\ tracking' = FALSE
    /\ location' = Null
    /\ address' = ""
    /\ UNCHANGED <<screen, place, mounted, locations, readyState, frames, starts,
                   first, callbacks, sent, emitted, session>>

\* The record stopTracking sends: the last element of the locations it
\* saw (the object itself, shared with the state), or a fresh placeholder.
LastLocation(j) ==
    IF stops[j].index > 0
    THEN [latitude |-> locations[stops[j].index].latitude,
          longitude |-> locations[stops[j].index].longitude,
          reverseData |-> locations[stops[j].index].reverseData]
    ELSE stops[j].last

NeedsAddress(rec) == ~Truthy(rec.reverseData) \/ rec.reverseData = "Unknown"

\* WebSocket screen: stopTracking up to its first await.  Not tracking:
\* log and return.  Otherwise clear the watch, setTracking(false), pick the
\* last location, and await fetchAddress (address missing or "Unknown") or
\* getDeviceData.
ws_stopTracking ==
    /\ screen = "ws"
    /\ mounted
    /\ Ops < MaxOps
    /\ \E j \in StopIds :
        /\ stops[j].pc = "none"
        /\ \A m \in StopIds : m < j => stops[m].pc # "none"
        /\ IF ~tracking
           THEN /\ stops' = [stops EXCEPT ![j].pc = "inactive"]
                /\ UNCHANGED <<watches, watchId, tracking>>
           ELSE /\ IF watchId # Null
                   THEN /\ watches' = clearWatch(watchId)
                        /\ watchId' = Null
                   ELSE UNCHANGED <<watches, watchId>>
                /\ tracking' = FALSE
                /\ LET n == Len(locations)
                       needs == IF n > 0
                                THEN NeedsAddress(locations[n])
                                ELSE NeedsAddress(NoStop.last)
                   IN stops' = [stops EXCEPT
                                  ![j] = [pc |-> IF needs THEN "fetch"
                                                 ELSE "deviceData",
                                          last |-> NoStop.last,
                                          index |-> n,
                                          sess |-> session]]
    /\ UNCHANGED <<screen, place, mounted, location, address, locations, readyState,
                   frames, starts, first, callbacks, sent, emitted,
                   session>>

\* WebSocket screen: the fetchAddress of stopTracking settled.  The result
\* is stored into the record (in place); a thrown error is caught and
\* logged, and stopTracking ends without sending FINISH.
ws_stopTracking_resolved(j, response) ==
    /\ screen = "ws"
    /\ stops[j].pc = "fetch"
    /\ LET l == LastLocation(j)
           r == fetchAddress(l.latitude, l.longitude, response)
       IN IF r.threw
          THEN /\ stops' = [stops EXCEPT ![j].pc = "failed"]
               /\ UNCHANGED locations
          ELSE /\ stops' = [stops EXCEPT ![j].pc = "deviceData",
                                         ![j].last.reverseData = r.value]
               /\ locations' = IF stops[j].index > 0
                               THEN [locations EXCEPT
                                       ![stops[j].index].reverseData = r.value]
                               ELSE locations
    /\ UNCHANGED <<screen, place, mounted, tracking, watchId, watches, location,
                   address, readyState, frames, starts, first, callbacks,
                   sent, emitted, session>>

\* WebSocket screen: getDeviceData of stopTracking resolved; FINISH is sent.
ws_stopTracking_deviceData(j) ==
    /\ screen = "ws"
    /\ stops[j].pc = "deviceData"
    /\ stops' = [stops EXCEPT ![j].pc = "done"]
    /\ sendLocationEvent("FINISH", getDeviceData, LastLocation(j),
                         Tag(stops[j].sess, 0, j))
    /\ UNCHANGED <<screen, place, mounted, tracking, watchId, watches, location,
                   address, locations, readyState, starts, first, callbacks,
                   session>>

\* ------------------------------------------------------ socket and unmount
ws_onopen ==
    /\ screen = "ws"
    /\ readyState = "CONNECTING"
    /\ readyState' = "OPEN"
    /\ UNCHANGED <<screen, place, mounted, tracking, watchId, watches, location,
                   address, locations, frames, starts, first, callbacks,
                   stops, sent, emitted, session>>

\* The connection fails or drops; it is not reopened.
ws_onclose ==
    /\ screen = "ws"
    /\ readyState \in {"CONNECTING", "OPEN"}
    /\ readyState' = "CLOSED"
    /\ UNCHANGED <<screen, place, mounted, tracking, watchId, watches, location,
                   address, locations, frames, starts, first, callbacks,
                   stops, sent, emitted, session>>

\* Map screen: the effect cleanup clears the watch held in watchId.
map_unmount ==
    /\ screen = "map"
    /\ mounted
    /\ mounted' = FALSE
    /\ watches' = IF watchId # Null THEN clearWatch(watchId) ELSE watches
    /\ UNCHANGED <<screen, place, tracking, watchId, location, address, locations,
                   readyState, frames, starts, first, callbacks, stops,
                   sent, emitted, session>>

\* WebSocket screen: the effect cleanup closes the socket.
ws_unmount ==
    /\ screen = "ws"
    /\ mounted
    /\ mounted' = FALSE
    /\ readyState' = "CLOSED"
    /\ UNCHANGED <<screen, place, tracking, watchId, watches, location, address,
                   locations, frames, starts, first, callbacks, stops,
                   sent, emitted, session>>

\* ------------------------------------------------------------ specification
Next ==
    \/ startTracking
    \/ \E k \in StartIds, p \in BOOLEAN : map_startTracking_permission(k, p)
    \/ \E k \in StartIds, p \in BOOLEAN : ws_startTracking_permission(k, p)
    \/ \E k \in StartIds : ws_startTracking_deviceData(k)
    \/ \E k \in StartIds, r \in Responses : getCurrentPosition_success(k, r)
    \/ \E k \in StartIds : getCurrentPosition_error(k)
    \/ \E w \in StartIds : map_watchPosition_success(w)
    \/ \E c \in 1..MaxCallbacks, r \in Responses :
          map_watchPosition_resolved(c, r)
    \/ \E w \in StartIds : ws_watchPosition_success(w)
    \/ \E c \in 1..MaxCallbacks, r \in Responses :
          ws_watchPosition_resolved(c, r)
    \/ \E w \in StartIds : watchPosition_invalid(w)
    \/ map_stopTracking
    \/ ws_stopTracking
    \/ \E j \in StopIds, r \in Responses : ws_stopTracking_resolved(j, r)
    \/ \E j \in StopIds : ws_stopTracking_deviceData(j)
    \/ ws_onopen
    \/ ws_onclose
    \/ map_unmount
    \/ ws_unmount

Spec == Init /\ [][Next]_vars

\* ------------------------------------------------------------------ claims
Sent == sent[1]
SentType == Sent.payload.data.eventType
Invoked(j) == stops[j].pc \notin {"none", "inactive"}
WellFormed == {i \in DOMAIN callbacks : callbacks[i].pc # "invalid"}
StartSent(k) == first[k] \in {"sent", "substituted"}

\* C1: every startTracking of the WebSocket screen whose permission is
\* granted takes the session to Tracking, emits START once its one-shot
\* position read has answered, and emits it before any ONGOING of the
\* session.
C1_StartOnceBeforeOngoing ==
    screen = "ws" =>
        \A k \in StartIds :
            /\ (/\ starts[k].pc = "deviceData"
                /\ mounted
                /\ \A j \in StopIds : stops[j].pc = "none") => tracking
            /\ first[k] \notin {"none", "pending"} => StartSent(k)
            /\ (sent # Null /\ SentType = "ONGOING" /\ Sent.sess = k)
                   => StartSent(k)

\* C2: a stopTracking of the WebSocket screen invoked while Tracking emits
\* its FINISH whatever its address resolution answers, and leaves the
\* session Idle until the next start.
C2_StopEmitsOneFinish ==
    screen = "ws" =>
        \A j \in StopIds :
            Invoked(j) =>
                /\ stops[j].pc # "failed"
                /\ stops[j].pc = "done" => emitted["FINISH"] >= 1
                /\ session = stops[j].sess => ~tracking

\* C3: once a stopTracking invoked while Tracking has run to its end and no
\* startTracking is in progress, no position subscription is active while
\* tracking is false.
C3_StopCancelsSubscription ==
    (/\ screen = "ws"
     /\ ~tracking
     /\ \E j \in StopIds : stops[j].pc = "done"
     /\ \A k \in StartIds : starts[k].pc \in {"none", "done"})
        => watches = {}

\* C4: N well-formed callbacks delivered while Tracking append N records
\* and emit N ONGOING events.
C4_OneRecordAndOneOngoingPerCallback ==
    (/\ screen = "ws"
     /\ mounted
     /\ \A i \in DOMAIN callbacks :
            callbacks[i].tracking /\ callbacks[i].pc # "fetch")
        => /\ Len(locations) = Cardinality(WellFormed)
           /\ emitted["ONGOING"] = Cardinality(WellFormed)

\* C5: the records of locations are in the order their callbacks arrived.
C5_RecordsInArrivalOrder ==
    \A a, b \in DOMAIN locations :
        a < b => locations[a].cb < locations[b].cb

\* C6: stopTracking invoked while Idle changes nothing: no event, no
\* address resolution, and tracking, the subscription and the stored
\* locations, location and address as they were.
C6_StopWhileIdleIsNoOp ==
    [][(~tracking /\ \E j \in StopIds : stops[j].pc = "none" /\ stops'[j].pc # "none")
          => /\ UNCHANGED <<tracking, watchId, watches, location, address,
                            locations, sent, emitted, frames, callbacks>>
             /\ \A j \in StopIds : stops'[j].pc = "fetch" => stops[j].pc = "fetch"
      ]_vars

\* C7: sendLocationEvent transmits a frame only while the socket is OPEN;
\* an event built while it is not OPEN is dropped, and no step other than
\* a call of sendLocationEvent ever transmits (nothing is queued and sent
\* after the socket opens).
C7_FrameOnlyWhenOpen ==
    [][/\ frames' # frames
           => /\ readyState = "OPEN"
              /\ emitted' # emitted
              /\ frames' = frames + 1
              /\ sent'[1].open
       /\ (emitted' # emitted /\ readyState # "OPEN")
           => frames' = frames /\ ~sent'[1].open
      ]_vars

\* An event was dropped while the socket was connecting, the socket has
\* opened since, and no frame has been transmitted.
C7_Witness ==
    /\ sent # Null
    /\ ~Sent.open
    /\ readyState = "OPEN"
    /\ frames = 0

\* C8: fetchAddress throws on a failed resolution, and a callback whose
\* resolution failed still appends its record, with address "Unknown".
C8_FailedResolutionFallsBackToUnknown ==
    /\ \A c \in DOMAIN Places :
           fetchAddress(Places[c].latitude, Places[c].longitude, "error").threw
    /\ (screen = "ws" /\ mounted) =>
           \A i \in DOMAIN callbacks :
               callbacks[i].pc = "caught" =>
                   \E n \in DOMAIN locations :
                       /\ locations[n].cb = i
                       /\ locations[n].reverseData = "Unknown"

\* C9: a record is appended and an ONGOING event is emitted only in a state
\* where tracking is true and watchId holds a subscription.
C9_CallbacksActOnlyWhileTracking ==
    [][(Len(locations') > Len(locations) \/ emitted'["ONGOING"] > emitted["ONGOING"])
          => tracking /\ watchId # Null
      ]_vars

\* C10: a startTracking whose permission request answered false (either
\* screen) did not set tracking, created no subscription, requested no
\* one-shot position and emitted no event.
C10_DeniedStartLeavesIdle ==
    \A k \in StartIds :
        starts[k].permission = "denied" =>
            /\ starts[k].pc = "done"
            /\ session # k
            /\ k \notin watches
            /\ watchId # <<k>>
            /\ first[k] = "none"
            /\ \A i \in DOMAIN callbacks : callbacks[i].watch # k
            /\ sent # Null => Sent.sess # k
            /\ (\A m \in StartIds : starts[m].permission # "granted")
                   => /\ ~tracking
                      /\ watchId = Null
                      /\ watches = {}
                      /\ emitted = [t \in EventTypes |-> 0]

\* A permission request answered false, on either screen.
C10_Witness ==
    \E k \in StartIds :
        /\ starts[k].permission = "denied"
        /\ \A m \in StartIds : starts[m].permission # "granted"
        /\ Cardinality({j \in StopIds : stops[j].pc # "none"}) = 0

\* C11: when the one-shot position read of a startTracking fails, the
\* start goes on: that step emits one START, the only one of that start,
\* built from the location (0,0) with address "Unknown"; the start has
\* registered its subscription, and unless a stop or an unmount came in
\* between the session is Tracking with that subscription active.
C11_FailedReadStillStarts ==
    [][\A k \in StartIds :
          /\ (first[k] = "pending" /\ first'[k] = "substituted")
                => /\ emitted'["START"] = emitted["START"] + 1
                   /\ UNCHANGED <<emitted["ONGOING"], emitted["FINISH"]>>
                   /\ sent'[1].sess = k
                   /\ sent'[1].payload.data.eventType = "START"
                   /\ sent'[1].location = [latitude |-> 0, longitude |-> 0,
                                           reverseData |-> "Unknown"]
                   /\ sent'[1].payload.data.reverseData = "Unknown"
                   /\ starts[k].pc = "done"
                   /\ starts[k].permission = "granted"
                   /\ (mounted /\ \A j \in StopIds : stops[j].pc = "none")
                         => /\ tracking'
                            /\ k \in watches'
                            /\ watchId' # Null
          /\ (/\ emitted'["START"] > emitted["START"]
              /\ sent'[1].sess = k)
                => first[k] = "pending" /\ first'[k] # "pending"
      ]_vars

\* The one-shot read of a start failed: START went out with "Unknown", and
\* the session is Tracking with the start's subscription active.
C11_Witness ==
    \E k \in StartIds :
        /\ first[k] = "substituted"
        /\ emitted["START"] = 1
        /\ Sent.sess = k
        /\ SentType = "START"
        /\ tracking
        /\ k \in watches
        /\ watchId = <<k>>

\* C12: a position callback whose payload has no coordinates changes
\* nothing: no record appended, location and address as they were, no
\* address resolution started, no event, tracking and the subscription
\* handle unchanged.
C12_InvalidPayloadChangesNothing ==
    [][(/\ Len(callbacks') = Len(callbacks) + 1
        /\ callbacks'[Len(callbacks')].pc = "invalid")
          => /\ UNCHANGED <<locations, location, address, tracking, watchId,
                            watches, sent, emitted, frames, starts, first,
                            stops>>
             /\ \A i \in DOMAIN callbacks : callbacks'[i] = callbacks[i]
      ]_vars

\* A payload without coordinates was delivered while Tracking, on a
\* session that already holds state a stray update would disturb.
C12_Witness ==
    \E i \in DOMAIN callbacks :
        /\ callbacks[i].pc = "invalid"
        /\ callbacks[i].tracking
        /\ i > 1
        /\ tracking
        /\ watchId # Null

\* C13: unmounting the component, on either screen, cancels the
\* subscription whose handle watchId holds, and emits no event.
C13_UnmountCancelsSubscription ==
    [][(mounted /\ ~mounted')
          => /\ watchId # Null => watchId[1] \notin watches'
             /\ emitted' = emitted
      ]_vars

\* C14: a callback of the WebSocket screen whose address resolution
\* completes is never cancelled, whatever happened to the session while
\* it was suspended: it sends its ONGOING event, and (the component still
\* mounted) appends its record.
C14_InFlightCallbackCompletes ==
    [][\A c \in DOMAIN callbacks :
          (/\ screen = "ws"
           /\ callbacks[c].pc = "fetch"
           /\ callbacks'[c].pc = "done")
             => /\ emitted'["ONGOING"] = emitted["ONGOING"] + 1
                /\ sent'[1].cb = c
                /\ sent'[1].payload.data.eventType = "ONGOING"
                /\ mounted => /\ Len(locations') = Len(locations) + 1
                              /\ locations'[Len(locations')].cb = c
      ]_vars

\* A callback arrived while Tracking; the session was stopped and its
\* FINISH emitted while the callback's resolution was in flight; the
\* resolution then completed, and the callback appended its record and
\* sent ONGOING after the FINISH.
C14_Witness ==
    /\ screen = "ws"
    /\ sent # Null
    /\ SentType = "ONGOING"
    /\ callbacks[Sent.cb].tracking
    /\ ~tracking
    /\ watchId = Null
    /\ watches = {}
    /\ emitted["FINISH"] = 1
    /\ \E j \in StopIds :
           stops[j].pc = "done" /\ stops[j].sess = callbacks[Sent.cb].watch
    /\ locations # <<>>
    /\ locations[Len(locations)].cb = Sent.cb

\* C15: at most one position subscription is active, and an active
\* subscription is the one whose handle watchId holds.
C15_OneSubscriptionHeldInWatchId ==
    /\ Cardinality(watches) <= 1
    /\ \A w \in watches : watchId = <<w>>

\* The records of locations that callbacks of session k appended.
RecordsOf(k) ==
    {n \in DOMAIN locations : callbacks[locations[n].cb].watch = k}

Record(n) ==
    [latitude |-> locations[n].latitude,
     longitude |-> locations[n].longitude,
     reverseData |-> locations[n].reverseData]

\* C16: the FINISH a stopTracking emits is built from the record most
\* recently appended during the session being stopped, and when the session
\* appended none, from (0,0) with the address just resolved for it.
C16_FinishCarriesLastLocation ==
    [][emitted'["FINISH"] > emitted["FINISH"]
          => LET call == sent'[1]
                 recs == RecordsOf(call.sess)
             IN IF recs # {}
                THEN \E n \in recs :
                        /\ \A m \in recs : m <= n
                        /\ call.location = Record(n)
                ELSE /\ call.location.latitude = 0
                     /\ call.location.longitude = 0
                     /\ \E r \in Responses :
                           /\ ~fetchAddress(0, 0, r).threw
                           /\ call.location.reverseData
                                  = fetchAddress(0, 0, r).value
      ]_vars

\* C17: the payload of every event carries the event type, the device
\* descriptor and the latitude and longitude of the location it was built
\* from, 0 included, and the location's address, "Unknown" standing in
\* only for an address that is missing.
C17_PayloadCarriesLocation ==
    sent # Null =>
        /\ Sent.payload.data.latitude = <<Sent.location.latitude>>
        /\ Sent.payload.data.longitude = <<Sent.location.longitude>>
        /\ Sent.payload.data.reverseData
              = IF Truthy(Sent.location.reverseData)
                THEN Sent.location.reverseData
                ELSE "Unknown"
        /\ Sent.payload.data.eventType \in EventTypes
        /\ Sent.payload.data.deviceId = getDeviceData.deviceId
        /\ Sent.payload.data.deviceName = getDeviceData.deviceName
        /\ Sent.payload.data.os = getDeviceData.os

\* C18: on the map screen, in a session where every address resolution
\* started has completed, the address shown is what the service answered
\* for the location shown.
C18_AddressMatchesLocation ==
    (/\ screen = "map"
     /\ mounted
     /\ tracking
     /\ location # Null
     /\ \A j \in StopIds : stops[j].pc = "none"
     /\ \A i \in DOMAIN callbacks : callbacks[i].pc \in {"done", "invalid"})
        => \E r \in Responses :
              /\ ~fetchAddress(location[1].latitude,
                               location[1].longitude, r).threw
              /\ address = fetchAddress(location[1].latitude,
                                        location[1].longitude, r).value

\* C19: on the map screen, while tracking is false and no startTracking is
\* in progress, location is null and address is empty.
C19_ClearedStateStaysCleared ==
    (/\ screen = "map"
     /\ ~tracking
     /\ \A k \in StartIds : starts[k].pc \in {"none", "done"})
        => location = Null /\ address = ""

====
